---- MODULE Spec2Model ----
(***************************************************************************)
(* A model of pathwiz's file_management package: the permission auditor    *)
(* and codec (permissions.py), the directory tree renderer (structure.py)  *)
(* and the file listing (filesystem.py), over one abstract filesystem.     *)
(***************************************************************************)
EXTENDS Integers, Sequences, FiniteSets, TLC

(***************************************************************************)
(* Bounds of the model.                                                    *)
(***************************************************************************)
\* Entries (files and directories) beneath the root directory of an audit.
MaxAuditEntries == 2
\* Entries beneath the directory given to generate_directory_tree.
MaxTreeEntries == 3

(***************************************************************************)
(* The filesystem: node 0 is the manager's root directory, nodes 1..n are  *)
(* the entries beneath it.  A name is the sequence of its characters.      *)
(***************************************************************************)
VARIABLES
    parent,     \* parent[i]: the directory holding entry i
    kind,       \* kind[i]: "dir" or "file"
    name,       \* name[i]: the entry's name, a sequence of characters
    perm        \* perm[i]: the permission bits of the entry, 0..0o777

VARIABLES
    status,     \* check_permissions: "idle", "running", "returned", "raised"
    request,    \* request_permissions of the running audit
    fullPath,   \* full_path of the running audit (a node, or Missing)
    stack,      \* the traverse() frames, outermost first
    writes,     \* os.chmod calls made by the running audit
    statted,    \* nodes os.stat was called on by the running audit
    visited,    \* nodes traverse() was entered for, in order
    perm0,      \* the permission bits when the audit was called
    error,      \* the raised PermissionError: the paths its message names, outermost first
    lastOk      \* <<full_path, request, wrote>> of the audit before this one, had it returned

VARIABLES
    codecIn,    \* octal_permissions given to permissions_to_rwx
    codecOut    \* the string it returned

VARIABLES
    treeArgs,   \* <<>>, or <<the arguments generate_directory_tree was called with>>
    markdownOut,\* the first element returned: <<>> for None, or <<the lines>>
    dictOut     \* the second element returned: <<>> for None, or <<the mapping>>

VARIABLES
    listArgs,   \* <<>>, or <<the arguments get_file_list was called with>>
    listOut,    \* <<>> when nothing was returned, or <<the returned list>>
    listError   \* the kind of the raised error, "" for none

fsVars == <<parent, kind, name, perm>>
auditVars == <<status, request, fullPath, stack, writes, statted, visited, perm0,
               error, lastOk>>
codecVars == <<codecIn, codecOut>>
treeVars == <<treeArgs, markdownOut, dictOut>>
listVars == <<listArgs, listOut, listError>>
vars == <<fsVars, auditVars, codecVars, treeVars, listVars>>

\* The path of no filesystem entry.
Missing == 0 - 1
\* The name given to entry i where names play no part.
PlainName(i) == <<<<"a", "b", "c", "d", "e", "f", "g", "h">>[i + 1]>>

Nodes == DOMAIN kind
Entries == Nodes \ {0}
Children(d) == {i \in Entries : parent[i] = d}
Dirs == {i \in Nodes : kind[i] = "dir"}
Files == {i \in Nodes : kind[i] = "file"}

\* The proper ancestors of node i, and the nodes of the subtree rooted at d.
RECURSIVE Ancestors(_)
Ancestors(i) == IF i = 0 THEN {} ELSE {parent[i]} \cup Ancestors(parent[i])
Subtree(d) == {i \in Nodes : i = d \/ d \in Ancestors(i)}

\* A finite set of nodes listed by increasing node number.
RECURSIVE Listed(_)
Listed(S) ==
    IF S = {} THEN <<>>
    ELSE LET x == CHOOSE y \in S : \A z \in S : y <= z
         IN <<x>> \o Listed(S \ {x})

SeqToSet(s) == {s[i] : i \in DOMAIN s}

(***************************************************************************)
(* Initial filesystems: an entry's parent is a directory with a smaller     *)
(* number.                                                                 *)
(***************************************************************************)
TreeShapeOk(p, k) ==
    /\ k[0] = "dir"
    /\ \A i \in DOMAIN p : p[i] < i /\ k[p[i]] = "dir"

InitIdleAudit ==
    /\ status = "idle"
    /\ request = 0
    /\ fullPath = Missing
    /\ stack = <<>>
    /\ writes = 0
    /\ statted = {}
    /\ visited = <<>>
    /\ perm0 = perm
    /\ error = <<>>
    /\ lastOk = <<>>

InitIdleCodec == codecIn = 0 /\ codecOut = <<>>
InitIdleTree == treeArgs = <<>> /\ markdownOut = <<>> /\ dictOut = <<>>
InitIdleList == listArgs = <<>> /\ listOut = <<>> /\ listError = ""

(***************************************************************************)
(* PermissionsManager.check_permissions                                    *)
(***************************************************************************)
\* The permission values the filesystems and the audits are drawn from.
PermValues == {448, 493, 420}     \* 0o700, 0o755, 0o644

\* os.stat(...).st_mode: the file type bits (S_IFDIR 0o040000, S_IFREG
\* 0o100000) above the permission bits.
StMode(path) == (IF kind[path] = "dir" THEN 16384 ELSE 32768) + perm[path]

\* A plausible slip: the mode compared without the 0o777 mask.
CurrentPermissionsUnmasked(path) == StMode(path)

\* current_permissions = stat_info.st_mode & 0o777
CurrentPermissions(path) == StMode(path) % 512

\* A plausible slip: the comparison inverted.
NeedsChmodInverted(path, req) == CurrentPermissions(path) = req

\* if current_permissions != request_permissions
NeedsChmod(path, req) == CurrentPermissions(path) # req

\* A plausible slip: os.path.isdir(child) on the bare child name, which is
\* looked up in the working directory and found in no case.
ChildDirsBareName(path) == {}

\* A plausible slip: the isdir filter left out.
ChildDirsUnfiltered(path) == Children(path)

\* [join(path, child) for child in os.listdir(path) if isdir(join(path, child))]
ChildDirs(path) == {c \in Children(path) : kind[c] = "dir"}

Frame(path) == [path |-> path, pc |-> "check", todo |-> <<>>]
Top == stack[Len(stack)]
SetTop(f) == [stack EXCEPT ![Len(stack)] = f]
FramePaths == [i \in DOMAIN stack |-> stack[i].path]

\* check_permissions is called: full_path.exists() decides between the
\* immediate return and the first traverse().  The argument resolve only
\* tells os.stat whether to follow a symbolic link, and the filesystems here
\* hold none.
CheckPermissions(directory_path, request_permissions) ==
    /\ status \in {"idle", "returned", "raised"}
    /\ request' = request_permissions
    /\ fullPath' = directory_path
    /\ writes' = 0
    /\ statted' = {}
    /\ perm0' = perm
    /\ error' = <<>>
    /\ lastOk' = IF status = "returned" /\ fullPath # Missing
                 THEN <<fullPath, request, writes > 0>> ELSE <<>>
    /\ IF directory_path = Missing
       THEN /\ status' = "returned"
            /\ stack' = <<>>
            /\ visited' = <<>>
       ELSE /\ status' = "running"
            /\ stack' = <<Frame(directory_path)>>
            /\ visited' = <<directory_path>>
    /\ UNCHANGED <<fsVars, codecVars, treeVars, listVars>>

\* check_and_correct(path) returns: the mode is read and, when it differs
\* from the request, written.
CheckAndCorrect ==
    /\ status = "running"
    /\ Top.pc = "check"
    /\ statted' = statted \cup {Top.path}
    /\ IF NeedsChmod(Top.path, request)
       THEN /\ perm' = [perm EXCEPT ![Top.path] = request]
            /\ writes' = writes + 1
       ELSE UNCHANGED <<perm, writes>>
    /\ stack' = SetTop([Top EXCEPT !.pc = "list"])
    /\ UNCHANGED <<parent, kind, name, status, request, fullPath, visited, perm0,
                   error, lastOk, codecVars, treeVars, listVars>>

\* os.stat fails: check_and_correct raises PermissionError, which every
\* traverse() on the stack catches (it is an OSError) and raises again.
StatFails ==
    /\ status = "running"
    /\ Top.pc = "check"
    /\ statted' = statted \cup {Top.path}
    /\ status' = "raised"
    /\ error' = FramePaths \o <<Top.path>>
    /\ stack' = <<>>
    /\ UNCHANGED <<fsVars, request, fullPath, writes, visited, perm0, lastOk,
                   codecVars, treeVars, listVars>>

\* os.chmod fails: as for os.stat, after the mode was read.
ChmodFails ==
    /\ status = "running"
    /\ Top.pc = "check"
    /\ NeedsChmod(Top.path, request)
    /\ statted' = statted \cup {Top.path}
    /\ status' = "raised"
    /\ error' = FramePaths \o <<Top.path>>
    /\ stack' = <<>>
    /\ UNCHANGED <<fsVars, request, fullPath, writes, visited, perm0, lastOk,
                   codecVars, treeVars, listVars>>

\* os.listdir(path) returns its entries and the directories among them are
\* kept.  The entries come in the order of their node numbers: the trees of
\* Init number the siblings in every possible way, so every order the
\* operating system may list them in is covered.
ListDir ==
    /\ status = "running"
    /\ Top.pc = "list"
    /\ kind[Top.path] = "dir"
    /\ LET child_dirs == Listed(ChildDirs(Top.path))
       IN stack' = SetTop([Top EXCEPT !.pc = "loop", !.todo = child_dirs])
    /\ UNCHANGED <<fsVars, status, request, fullPath, writes, statted, visited, perm0,
                   error, lastOk, codecVars, treeVars, listVars>>

\* os.listdir(path) raises an OSError (always so when path is a plain
\* file): every traverse() on the stack raises PermissionError.
ListDirFails ==
    /\ status = "running"
    /\ Top.pc = "list"
    /\ status' = "raised"
    /\ error' = FramePaths
    /\ stack' = <<>>
    /\ UNCHANGED <<fsVars, request, fullPath, writes, statted, visited, perm0,
                   lastOk, codecVars, treeVars, listVars>>

\* for child_dir in child_dirs: await traverse(child_dir)
Recurse ==
    /\ status = "running"
    /\ Top.pc = "loop"
    /\ Top.todo # <<>>
    /\ stack' = SetTop([Top EXCEPT !.todo = Tail(Top.todo)]) \o <<Frame(Head(Top.todo))>>
    /\ visited' = Append(visited, Head(Top.todo))
    /\ UNCHANGED <<fsVars, status, request, fullPath, writes, statted, perm0, error,
                   lastOk, codecVars, treeVars, listVars>>

\* traverse(path) returns; the outermost return ends check_permissions.
TraverseReturns ==
    /\ status = "running"
    /\ Top.pc = "loop"
    /\ Top.todo = <<>>
    /\ stack' = SubSeq(stack, 1, Len(stack) - 1)
    /\ status' = IF Len(stack) = 1 THEN "returned" ELSE "running"
    /\ UNCHANGED <<fsVars, request, fullPath, writes, statted, visited, perm0, error,
                   lastOk, codecVars, treeVars, listVars>>

InitAudit ==
    /\ \E n \in 0..MaxAuditEntries :
         /\ parent \in [1..n -> 0..n]
         /\ kind \in [0..n -> {"dir", "file"}]
         /\ TreeShapeOk(parent, kind)
         /\ name = [i \in 0..n |-> PlainName(i)]
         /\ perm \in [0..n -> PermValues]
    /\ InitIdleAudit
    /\ InitIdleCodec /\ InitIdleTree /\ InitIdleList

NextAudit ==
    \/ \E dp \in Nodes \cup {Missing}, req \in PermValues : CheckPermissions(dp, req)
    \/ CheckAndCorrect
    \/ StatFails
    \/ ChmodFails
    \/ ListDir
    \/ ListDirFails
    \/ Recurse
    \/ TraverseReturns

SpecAudit == InitAudit /\ [][NextAudit]_vars

(***************************************************************************)
(* Claims about check_permissions                                          *)
(***************************************************************************)
AuditedDirs == Subtree(fullPath) \cap Dirs

C2_NoWritesWhenCompliant ==
    (/\ status # "idle" /\ fullPath # Missing
     /\ kind[fullPath] = "dir"
     /\ \/ \A d \in AuditedDirs : perm0[d] = request
        \/ (lastOk # <<>> /\ lastOk[1] = fullPath /\ lastOk[2] = request))
        => writes = 0

\* A second audit returned with no write, after a first one of the same
\* tree and request that had written; the tree holds several directories.
C2_Witness ==
    /\ status = "returned" /\ fullPath # Missing
    /\ lastOk # <<>> /\ lastOk[1] = fullPath /\ lastOk[2] = request /\ lastOk[3]
    /\ Cardinality(AuditedDirs) >= 2
    /\ statted = AuditedDirs
    /\ writes = 0

\* C3: an audit of a directory never reads or changes the permission bits of
\* a plain file, neither while it runs nor when it has ended.
C3_FilesUntouched ==
    (status # "idle" /\ fullPath # Missing /\ kind[fullPath] = "dir")
        => \A f \in Files : perm[f] = perm0[f] /\ f \notin statted

\* An audit that corrected directories returned, and a plain file of the
\* audited tree still has bits other than the requested ones.
C3_Witness ==
    /\ status = "returned" /\ fullPath # Missing
    /\ writes > 0
    /\ \E f \in Subtree(fullPath) \cap Files : perm[f] # request

\* C4: when a read, a write or a listing fails at a node, the audit ends with
\* a PermissionError whose message names that node, no traverse() is left
\* running, every node visited before the failing one has the requested
\* bits, and no node after it was read or changed.
C4_AbortAtFailure ==
    status = "raised"
        => /\ visited # <<>> /\ error # <<>>
           /\ error[Len(error)] = visited[Len(visited)]
           /\ error[1] = fullPath
           /\ stack = <<>>
           /\ \A i \in 1..(Len(visited) - 1) : perm[visited[i]] = request
           /\ \A d \in Subtree(fullPath) \ SeqToSet(visited) :
                  d \notin statted /\ perm[d] = perm0[d]

\* The audit failed at its second node or later: a node before it was
\* corrected and a directory after it still has other bits.
C4_Witness ==
    /\ status = "raised"
    /\ Len(visited) >= 2
    /\ \E i \in 1..(Len(visited) - 1) : perm0[visited[i]] # request
    /\ \E d \in AuditedDirs \ SeqToSet(visited) : perm[d] # request

(***************************************************************************)
(* PermissionsManager.permissions_to_rwx and octal_digit_to_rwx            *)
(***************************************************************************)
\* The permission values: 0 .. 0o777.
PermissionRange == 0..511

\* n >> shift, and the bit of n that a mask 2^k selects.
ShiftRight(n, shift) == n \div (2 ^ shift)
Bit(n, k) == (n \div (2 ^ k)) % 2

\* A plausible slip: the masks of w and x exchanged.
OctalDigitToRwxSwapped(octal_digit) ==
    << IF Bit(octal_digit, 2) = 1 THEN "r" ELSE "-",
       IF Bit(octal_digit, 0) = 1 THEN "w" ELSE "-",
       IF Bit(octal_digit, 1) = 1 THEN "x" ELSE "-" >>

\* r, w, x from the masks 0b100, 0b010, 0b001, "-" for a bit that is not set.
OctalDigitToRwx(octal_digit) ==
    << IF Bit(octal_digit, 2) = 1 THEN "r" ELSE "-",
       IF Bit(octal_digit, 1) = 1 THEN "w" ELSE "-",
       IF Bit(octal_digit, 0) = 1 THEN "x" ELSE "-" >>

\* for shift in (6, 3, 0): result += octal_digit_to_rwx((v >> shift) & 0o7)
PermissionsToRwx(octal_permissions) ==
    OctalDigitToRwx(ShiftRight(octal_permissions, 6) % 8)
        \o OctalDigitToRwx(ShiftRight(octal_permissions, 3) % 8)
        \o OctalDigitToRwx(ShiftRight(octal_permissions, 0) % 8)

\* permissions_to_rwx(codecIn) is called and returns.
PermissionsToRwxCall ==
    /\ codecOut = <<>>
    /\ codecOut' = PermissionsToRwx(codecIn)
    /\ UNCHANGED <<fsVars, auditVars, codecIn, treeVars, listVars>>

InitEmptyFs ==
    /\ parent = <<>>
    /\ kind = [i \in {0} |-> "dir"]
    /\ name = [i \in {0} |-> PlainName(0)]
    /\ perm = [i \in {0} |-> 493]

InitCodec ==
    /\ codecIn \in PermissionRange
    /\ codecOut = <<>>
    /\ InitEmptyFs /\ InitIdleAudit /\ InitIdleTree /\ InitIdleList

NextCodec == PermissionsToRwxCall

SpecCodec == InitCodec /\ [][NextCodec]_vars

(***************************************************************************)
(* Claims about permissions_to_rwx                                         *)
(***************************************************************************)
\* The value of one triad read back: r = 4, w = 2, x = 1.
TriadValue(s, first) ==
    (IF s[first] = "r" THEN 4 ELSE 0)
        + (IF s[first + 1] = "w" THEN 2 ELSE 0)
        + (IF s[first + 2] = "x" THEN 1 ELSE 0)

\* The string read back triad by triad: owner, group, other.
RwxValue(s) == 64 * TriadValue(s, 1) + 8 * TriadValue(s, 4) + TriadValue(s, 7)

\* C5: for every v in 0..0o777, permissions_to_rwx(v) has exactly 9
\* characters, each of them r, w, x or -, and reading the string back triad by
\* triad gives v again.
C5_RwxRoundTrip ==
    codecOut # <<>>
        => /\ Len(codecOut) = 9
           /\ \A i \in 1..9 : codecOut[i] \in {"r", "w", "x", "-"}
           /\ RwxValue(codecOut) = codecIn

\* permissions_to_rwx(0o755) returned "rwxr-xr-x".
C5_Witness ==
    /\ codecIn = 493
    /\ codecOut = <<"r", "w", "x", "r", "-", "x", "r", "-", "x">>

(***************************************************************************)
(* Names: pathlib's name, suffix and stem, and the order of sorted()       *)
(***************************************************************************)
DotPy == <<".", "p", "y">>
InitPy == <<"_", "_", "i", "n", "i", "t", "_", "_", ".", "p", "y">>
\* excluded_directories when the caller gives none.
DefaultExcluded ==
    << <<".", "v", "e", "n", "v">>,
       <<"_", "_", "p", "y", "c", "a", "c", "h", "e", "_", "_">>,
       <<"t", "e", "s", "t", "s">> >>

\* The characters of the names, in the order of their code points.
Alphabet ==
    << ".", "_", "a", "b", "c", "d", "e", "f", "g", "h", "i", "j", "k", "l", "m",
       "n", "o", "p", "q", "r", "s", "t", "u", "v", "w", "x", "y", "z" >>
Ord(c) == CHOOSE i \in DOMAIN Alphabet : Alphabet[i] = c

\* s < t for two strings, as Python compares them.
RECURSIVE StrLess(_, _)
StrLess(s, t) ==
    IF t = <<>> THEN FALSE
    ELSE IF s = <<>> THEN TRUE
    ELSE IF Head(s) # Head(t) THEN Ord(Head(s)) < Ord(Head(t))
    ELSE StrLess(Tail(s), Tail(t))

\* name.rfind('.'), counted from 1 (0: no dot).
RFindDot(nm) ==
    LET dots == {i \in DOMAIN nm : nm[i] = "."}
    IN IF dots = {} THEN 0 ELSE CHOOSE i \in dots : \A j \in dots : j <= i

\* PurePath.suffix: the last dot and what follows it, unless the dot is the
\* first or the last character.
Suffix(nm) ==
    LET i == RFindDot(nm)
    IN IF 1 < i /\ i < Len(nm) THEN SubSeq(nm, i, Len(nm)) ELSE <<>>

\* PurePath.stem: the name without its suffix.
Stem(nm) ==
    LET i == RFindDot(nm)
    IN IF 1 < i /\ i < Len(nm) THEN SubSeq(nm, 1, i - 1) ELSE nm

\* item.name.startswith(".")
StartsWithDot(nm) == nm # <<>> /\ Head(nm) = "."

\* sorted(S, key=name): the nodes of S by name; sibling names differ.
RECURSIVE SortedByName(_)
SortedByName(S) ==
    IF S = {} THEN <<>>
    ELSE LET x == CHOOSE y \in S : \A z \in S \ {y} : StrLess(name[y], name[z])
         IN <<x>> \o SortedByName(S \ {x})

(***************************************************************************)
(* The directory trees given to generate_directory_tree and get_file_list  *)
(***************************************************************************)
TreeDirNames == { <<"a">>, <<"b">>, <<"t", "e", "s", "t", "s">>, <<".", "h">> }
TreeFileNames == { <<"a", ".", "p", "y">>, <<"m", ".", "p", "y">>, InitPy,
                   <<"n", ".", "t", "x", "t">>, <<".", "x", ".", "p", "y">> }
\* project_root.name
RootName == <<"r">>

\* The trees of n entries: entry i has parent field parent[i] < i (0 is the
\* root), which is a directory.  Entries are numbered parent by parent and,
\* under one parent, by name, so that each tree is drawn once.
RECURSIVE TreeSet(_)
TreeSet(n) ==
    IF n = 0 THEN {[parent |-> <<>>, name |-> <<>>]}
    ELSE UNION {
           { [parent |-> Append(t.parent, p), name |-> Append(t.name, nm)] :
               <<p, nm>> \in
                 { pn \in (0..(n - 1)) \X (TreeDirNames \cup TreeFileNames) :
                     /\ pn[1] = 0 \/ t.name[pn[1]] \in TreeDirNames
                     /\ n = 1 \/ pn[1] >= t.parent[n - 1]
                     /\ (n > 1 /\ pn[1] = t.parent[n - 1])
                           => StrLess(t.name[n - 1], pn[2]) } } :
           t \in TreeSet(n - 1) }

InitTreeFs ==
    \E n \in 0..MaxTreeEntries : \E t \in TreeSet(n) :
        /\ parent = t.parent
        /\ name = [i \in 0..n |-> IF i = 0 THEN RootName ELSE t.name[i]]
        /\ kind = [i \in 0..n |-> IF i = 0 \/ t.name[i] \in TreeDirNames
                                  THEN "dir" ELSE "file"]
        /\ perm = [i \in 0..n |-> 493]

(***************************************************************************)
(* generate_directory_tree: the Markdown pass                              *)
(***************************************************************************)
\* The connectors and continuations, with ASCII standing for the box-drawing
\* characters U+2514 (corner), U+251C (tee), U+2500 (dash), U+2502 (pipe).
Corner == "L-- "
Tee == "+-- "
Blank == "    "
\* The line of three grave accents that opens and closes the code block.
CodeFence == "(fence)"
Pipe == "|   "

\* excluded_directories, with the default put in for None (the empty tuple
\* wrapped: <<>> is None, <<list>> is a given list).
ExcludedNames(a) ==
    IF a.excluded_directories = <<>> THEN SeqToSet(DefaultExcluded)
    ELSE SeqToSet(a.excluded_directories[1])

\* A plausible slip: the hidden-name test left out of the filter.
MarkdownSkipsListedOnly(a, item) ==
    kind[item] = "dir" /\ name[item] \in ExcludedNames(a)

\* item.is_dir() and (item.name in excluded_directories
\*                    or (exclude_hidden and item.name.startswith(".")))
MarkdownSkips(a, item) ==
    /\ kind[item] = "dir"
    /\ \/ name[item] \in ExcludedNames(a)
       \/ (a.exclude_hidden /\ StartsWithDot(name[item]))

\* sorted(path.iterdir(), key=lambda x: (x.is_file(), x.name)) without the
\* skipped directories: the directories by name, then the files by name.
MarkdownItems(a, path) ==
    LET kept == {c \in Children(path) : ~MarkdownSkips(a, c)}
    IN SortedByName({c \in kept : kind[c] = "dir"})
           \o SortedByName({c \in kept : kind[c] = "file"})

\* One line of the tree: prefix + connector + text, for the entry node.
TreeLine(prefix, connector, text, node) ==
    [prefix |-> prefix, connector |-> connector, text |-> text, node |-> node]
\* A line that is not an entry's: the header, the fences.
PlainLine(text) == [prefix |-> <<>>, connector |-> "", text |-> text, node |-> Missing]

\* _generate_markdown_tree(path, prefix, is_last), and the loop over the
\* items of a directory that it and generate_directory_tree both run, from
\* item i on; next_prefix is "" for the items of the root.
RECURSIVE GenerateMarkdownTree(_, _, _, _), MarkdownLoop(_, _, _, _)
GenerateMarkdownTree(a, path, prefix, is_last) ==
    LET next_prefix == Append(prefix, IF is_last THEN Blank ELSE Pipe)
    IN <<TreeLine(prefix, IF is_last THEN Corner ELSE Tee, name[path] \o <<"/">>, path)>>
           \o MarkdownLoop(a, MarkdownItems(a, path), 1, next_prefix)
MarkdownLoop(a, items, i, next_prefix) ==
    IF i > Len(items) THEN <<>>
    ELSE LET item == items[i]
             is_last_item == (i = Len(items))
         IN (IF kind[item] = "dir"
             THEN GenerateMarkdownTree(a, item, next_prefix, is_last_item)
             ELSE IF Suffix(name[item]) = DotPy
             THEN <<TreeLine(next_prefix, IF is_last_item THEN Corner ELSE Tee,
                             name[item], item)>>
             ELSE <<>>)
            \o MarkdownLoop(a, items, i + 1, next_prefix)

\* markdown_lines, joined by "\n" into result_str (no formatter is given).
MarkdownLines(a) ==
    << PlainLine(<<"# Project Structure: ">> \o RootName),
       PlainLine(<<CodeFence>>),
       PlainLine(RootName \o <<"/">>) >>
        \o MarkdownLoop(a, MarkdownItems(a, 0), 1, <<>>)
        \o << PlainLine(<<CodeFence>>) >>

(***************************************************************************)
(* generate_directory_tree: the dict pass                                  *)
(***************************************************************************)
\* A mapping is a function from keys (strings) to values; a value is a
\* string (a dotted module path) or a nested mapping.
EmptyDict == [k \in {} |-> <<>>]
StrVal(s) == [str |-> s]
MapVal(m) == [map |-> m]
IsMap(v) == DOMAIN v = {"map"}
\* current_dict[key] = value
Put(d, key, value) ==
    [k \in DOMAIN d \cup {key} |-> IF k = key THEN value ELSE d[k]]

\* item.name in excluded_directories
\*     or (exclude_hidden and item.name.startswith("."))
DictSkips(a, item) ==
    \/ name[item] \in ExcludedNames(a)
    \/ (a.exclude_hidden /\ StartsWithDot(name[item]))

\* (item / "__init__.py").exists()
HasInitPy(item) == \E c \in Children(item) : name[c] = InitPy

\* _build_dict_structure(path, current_dict, module_prefix): the mapping
\* current_dict has become; BuildLoop is its loop from item i on.
RECURSIVE BuildDictStructure(_, _, _, _), BuildLoop(_, _, _, _, _)
BuildDictStructure(a, path, current_dict, module_prefix) ==
    BuildLoop(a, SortedByName(Children(path)), 1, current_dict, module_prefix)
BuildLoop(a, items, i, current_dict, module_prefix) ==
    IF i > Len(items) THEN current_dict
    ELSE LET item == items[i]
             after ==
               IF DictSkips(a, item) THEN current_dict
               ELSE IF kind[item] = "dir"
               THEN IF HasInitPy(item)
                    THEN LET package_name == name[item]
                             package_path == module_prefix \o package_name \o <<".">>
                         IN Put(current_dict, package_name,
                                MapVal(BuildDictStructure(a, item, EmptyDict, package_path)))
                    ELSE BuildDictStructure(a, item, current_dict,
                                            module_prefix \o name[item] \o <<".">>)
               ELSE IF Suffix(name[item]) = DotPy
               THEN LET module_name == Stem(name[item])
                    IN Put(current_dict, module_name, StrVal(module_prefix \o module_name))
               ELSE current_dict
         IN BuildLoop(a, items, i + 1, after, module_prefix)

\* dict_output after the dict pass.
DictStructure(a) ==
    IF HasInitPy(0)
    THEN Put(EmptyDict, RootName,
             MapVal(BuildDictStructure(a, 0, EmptyDict, RootName \o <<".">>)))
    ELSE BuildDictStructure(a, 0, EmptyDict, <<>>)

(***************************************************************************)
(* generate_directory_tree                                                 *)
(***************************************************************************)
\* The lists given as excluded_directories: none, an empty one, ["a"].
ExcludedChoices == { <<>>, << <<>> >>, << << <<"a">> >> >> }
OutputFormats == {"both", "markdown", "dict"}

\* markdown_output: None (<<>>) unless the format asks for the text.
MarkdownOutput(a) ==
    IF a.output_format \in {"markdown", "both"} THEN <<MarkdownLines(a)>> ELSE <<>>

\* dict_output: set to {} before the passes, filled when the format asks for
\* the mapping, and returned as it is.
DictOutput(a) ==
    IF a.output_format \in {"dict", "both"} THEN <<DictStructure(a)>> ELSE <<EmptyDict>>

\* generate_directory_tree(directory, excluded_directories, exclude_hidden,
\* output_format) is called on the root and returns the pair.
GenerateDirectoryTree(excluded_directories, exclude_hidden, output_format) ==
    LET a == [excluded_directories |-> excluded_directories,
              exclude_hidden |-> exclude_hidden,
              output_format |-> output_format]
    IN /\ treeArgs = <<>>
       /\ treeArgs' = <<a>>
       /\ markdownOut' = MarkdownOutput(a)
       /\ dictOut' = DictOutput(a)
       /\ UNCHANGED <<fsVars, auditVars, codecVars, listVars>>

InitTree ==
    /\ InitTreeFs
    /\ InitIdleAudit /\ InitIdleCodec /\ InitIdleTree /\ InitIdleList

NextTree ==
    \E ex \in ExcludedChoices, hid \in BOOLEAN, fmt \in OutputFormats :
        GenerateDirectoryTree(ex, hid, fmt)

SpecTree == InitTree /\ [][NextTree]_vars

(***************************************************************************)
(* Claims about generate_directory_tree                                    *)
(***************************************************************************)
TreeCalled == treeArgs # <<>>
TreeArgs == treeArgs[1]
TextLines == markdownOut[1]
Mapping == dictOut[1]

\* The entries from just below the root down to x, x included.
RECURSIVE PathDown(_)
PathDown(x) == IF x = 0 THEN <<>> ELSE Append(PathDown(parent[x]), x)

\* A name the exclusion list holds or, with exclude_hidden, a hidden one.
NameExcluded(nm) ==
    \/ nm \in ExcludedNames(TreeArgs)
    \/ (TreeArgs.exclude_hidden /\ StartsWithDot(nm))

\* x is an excluded directory or lies beneath one.
UnderExcludedDir(x) ==
    \E d \in (Ancestors(x) \cup {x}) \ {0} : kind[d] = "dir" /\ NameExcluded(name[d])

IsSourceFile(x) == kind[x] = "file" /\ Suffix(name[x]) = DotPy

\* The lines of the text tree that render entry x.
LinesOf(x) == {i \in DOMAIN TextLines : TextLines[i].node = x}

\* C7: in the text tree no excluded or (with exclude_hidden) hidden
\* directory has a line, at any depth, and neither has any entry beneath one;
\* every other directory and every other source file has exactly one line,
\* which shows its name.
C7_ExcludedDirsAbsent ==
    (TreeCalled /\ markdownOut # <<>>)
        => /\ \A x \in Entries :
                IF UnderExcludedDir(x) THEN LinesOf(x) = {}
                ELSE (kind[x] = "dir" \/ IsSourceFile(x)) => Cardinality(LinesOf(x)) = 1
           /\ \A i \in DOMAIN TextLines :
                LET x == TextLines[i].node
                IN x # Missing
                     => TextLines[i].text
                          = (IF kind[x] = "dir" THEN name[x] \o <<"/">> ELSE name[x])

\* A hidden directory holding a source file was left out with the file, and
\* a source file outside it was rendered.
C7_Witness ==
    /\ TreeCalled /\ markdownOut # <<>>
    /\ TreeArgs.exclude_hidden
    /\ \E d \in Entries, f \in Entries :
          /\ kind[d] = "dir" /\ StartsWithDot(name[d])
          /\ parent[f] = d /\ IsSourceFile(f)
          /\ LinesOf(d) = {} /\ LinesOf(f) = {}
    /\ \E g \in Entries : IsSourceFile(g) /\ LinesOf(g) # {}

\* The lines of entries, their depth, and whether a line is followed by
\* another line of the same level.
EntryLines == {i \in DOMAIN TextLines : TextLines[i].node # Missing}
Depth(i) == Len(TextLines[i].prefix)
HasLaterSibling(i) ==
    \E j \in EntryLines :
        /\ j > i
        /\ Depth(j) = Depth(i)
        /\ \A k \in (i + 1)..(j - 1) : Depth(k) > Depth(i)

\* C8: at every level of the text tree the last rendered item has the corner
\* connector and every other rendered item the tee connector.
C8_LastRenderedIsCorner ==
    (TreeCalled /\ markdownOut # <<>>)
        => \A i \in EntryLines :
              TextLines[i].connector = (IF HasLaterSibling(i) THEN Tee ELSE Corner)

\* C9: the text is returned exactly when the format is "markdown" or "both",
\* the mapping exactly when it is "dict" or "both"; the other element is None.
C9_OnlyRequestedReturned ==
    TreeCalled
        => /\ markdownOut # <<>> <=> TreeArgs.output_format \in {"markdown", "both"}
           /\ dictOut # <<>> <=> TreeArgs.output_format \in {"dict", "both"}

\* The keys leading to the mapping that the dict pass fills for the entries
\* of directory d: the root's name when the root is a package, then the name
\* of every package on the way down to d.
LevelKeys(d) ==
    LET down == PathDown(d)
        pkgs == SelectSeq(down, LAMBDA y : HasInitPy(y))
    IN (IF HasInitPy(0) THEN <<RootName>> ELSE <<>>)
           \o [i \in DOMAIN pkgs |-> name[pkgs[i]]]

\* The names of the directories from below the root down to d, each followed
\* by a dot, after the root's own name and a dot when the root is a package.
RECURSIVE DottedNames(_)
DottedNames(down) ==
    IF down = <<>> THEN <<>>
    ELSE name[Head(down)] \o <<".">> \o DottedNames(Tail(down))
DottedPrefix(d) ==
    (IF HasInitPy(0) THEN RootName \o <<".">> ELSE <<>>) \o DottedNames(PathDown(d))

\* The mapping reached from m by the keys, wrapped, or <<>> when a key is
\* missing or holds no mapping.
RECURSIVE Lookup(_, _)
Lookup(m, keys) ==
    IF keys = <<>> THEN <<m>>
    ELSE IF Head(keys) \in DOMAIN m /\ IsMap(m[Head(keys)])
    THEN Lookup(m[Head(keys)].map, Tail(keys))
    ELSE <<>>

\* x is not excluded by name and lies beneath no entry that is.
DictVisible(x) == \A y \in (Ancestors(x) \cup {x}) \ {0} : ~NameExcluded(name[y])

\* C6: in the returned mapping, every package directory is a key of the
\* mapping of the level it lies in, with a nested mapping as value, and every
\* source file is a key (its base name) of the mapping of its directory's
\* level, a directory without __init__.py sharing the level of its parent;
\* the file's value is the dotted path of the directory names below the root
\* (after the root's own name when the root is a package) and the base name.
C6_MappingShape ==
    (TreeCalled /\ TreeArgs.output_format \in {"dict", "both"})
        => \A x \in Entries :
              DictVisible(x) =>
                LET level == Lookup(Mapping, LevelKeys(parent[x]))
                IN /\ (kind[x] = "dir" /\ HasInitPy(x))
                        => /\ level # <<>>
                           /\ name[x] \in DOMAIN level[1]
                           /\ IsMap(level[1][name[x]])
                   /\ IsSourceFile(x)
                        => /\ level # <<>>
                           /\ Stem(name[x]) \in DOMAIN level[1]
                           /\ level[1][Stem(name[x])]
                                = StrVal(DottedPrefix(parent[x]) \o Stem(name[x]))

\* The entries the dict pass inserts: the source files and the package
\* directories it visits, each under its key.
Inserted ==
    {x \in Entries :
        DictVisible(x) /\ (IsSourceFile(x) \/ (kind[x] = "dir" /\ HasInitPy(x)))}
KeyOf(x) == IF kind[x] = "dir" THEN name[x] ELSE Stem(name[x])

\* The number of keys of a mapping, those of its nested mappings included.
RECURSIVE MappingSize(_), SizeOver(_, _)
MappingSize(m) == SizeOver(m, DOMAIN m)
SizeOver(m, ks) ==
    IF ks = {} THEN 0
    ELSE LET k == CHOOSE k \in ks : TRUE
         IN 1 + (IF IsMap(m[k]) THEN MappingSize(m[k].map) ELSE 0)
              + SizeOver(m, ks \ {k})

\* C12: in one dict pass no two insertions go to the same key of the same
\* mapping level, and the returned mapping holds one key for every source
\* file and every package directory the pass visited (and one for the root
\* when the root is a package), also where directories without __init__.py
\* are flattened into the level of their parent.
C12_KeysUniqueInLevel ==
    (TreeCalled /\ TreeArgs.output_format \in {"dict", "both"})
        => /\ \A x \in Inserted, y \in Inserted :
                (x # y /\ KeyOf(x) = KeyOf(y))
                    => LevelKeys(parent[x]) # LevelKeys(parent[y])
           /\ MappingSize(Mapping)
                = Cardinality(Inserted) + (IF HasInitPy(0) THEN 1 ELSE 0)

(***************************************************************************)
(* FilesystemManager.get_file_list                                         *)
(***************************************************************************)
\* The extensions asked for: none (<<>>), "py", "txt".
ExtensionChoices == { <<>>, << <<"p", "y">> >>, << <<"t", "x", "t">> >> }

\* full_path.iterdir(): the immediate entries.
IterDir(full_path) == Listed(Children(full_path))

\* A plausible slip: glob("*") where rglob("*") was meant.
RGlobShallow(full_path) == Listed(Children(full_path))

\* full_path.rglob("*"): the entries at every depth.
RGlob(full_path) == Listed(Subtree(full_path) \ {full_path})

\* extension is None or file_path.suffix == f".{extension}"
ExtensionMatches(file_path, extension) ==
    \/ extension = <<>>
    \/ Suffix(name[file_path]) = <<".">> \o extension[1]

\* file_list, as the loop of either branch fills it.
FileList(full_path, extension, recursive) ==
    SelectSeq(IF recursive THEN RGlob(full_path) ELSE IterDir(full_path),
              LAMBDA file_path :
                  kind[file_path] = "file" /\ ExtensionMatches(file_path, extension))

\* A plausible slip: only full_path.exists() is asked.
NotADirectoryExistsOnly(full_path) == full_path = Missing

\* not full_path.exists() or not full_path.is_dir()
NotADirectory(full_path) == full_path = Missing \/ kind[full_path] # "dir"

\* get_file_list(directory, extension, recursive) is called and returns the
\* list, or raises DirectoryNotFoundError for a path that does not exist or
\* is no directory.
GetFileList(directory, extension, recursive) ==
    /\ listArgs = <<>>
    /\ listArgs' = <<[directory |-> directory, extension |-> extension,
                      recursive |-> recursive]>>
    /\ IF NotADirectory(directory)
       THEN /\ listError' = "DirectoryNotFoundError"
            /\ listOut' = <<>>
       ELSE /\ listError' = ""
            /\ listOut' = <<FileList(directory, extension, recursive)>>
    /\ UNCHANGED <<fsVars, auditVars, codecVars, treeVars>>

InitList ==
    /\ InitTreeFs
    /\ InitIdleAudit /\ InitIdleCodec /\ InitIdleTree /\ InitIdleList

NextList ==
    \E dir \in Nodes \cup {Missing}, ext \in ExtensionChoices, rec \in BOOLEAN :
        GetFileList(dir, ext, rec)

SpecList == InitList /\ [][NextList]_vars

(***************************************************************************)
(* Claims about get_file_list                                              *)
(***************************************************************************)
ListCalled == listArgs # <<>>
ListArgs == listArgs[1]
\* The entries the call looks at: the immediate ones or, with recursive, the
\* ones at every depth.
ListScope ==
    IF ListArgs.recursive
    THEN {x \in Entries : ListArgs.directory \in Ancestors(x)}
    ELSE {x \in Entries : parent[x] = ListArgs.directory}
\* The plain files of the scope whose suffix is the extension asked for.
ListExpected ==
    {x \in ListScope :
        /\ kind[x] = "file"
        /\ \/ ListArgs.extension = <<>>
           \/ Suffix(name[x]) = <<".">> \o ListArgs.extension[1]}

\* C10: for an existing directory get_file_list returns a list that holds,
\* once each, exactly the plain files with the asked extension (all plain
\* files when none is asked) among the immediate entries or, with recursive,
\* among the entries at every depth, and no directory.
C10_ListsMatchingFiles ==
    (ListCalled /\ ListArgs.directory # Missing /\ kind[ListArgs.directory] = "dir")
        => /\ listError = ""
           /\ listOut # <<>>
           /\ SeqToSet(listOut[1]) = ListExpected
           /\ Len(listOut[1]) = Cardinality(ListExpected)
           /\ \A i \in DOMAIN listOut[1] : kind[listOut[1][i]] = "file"

\* A recursive listing by extension returned a file of a subdirectory and
\* left out a directory and a file with another suffix.
C10_Witness ==
    /\ ListCalled /\ listError = "" /\ listOut # <<>>
    /\ ListArgs.recursive /\ ListArgs.extension # <<>>
    /\ \E i \in DOMAIN listOut[1] : parent[listOut[1][i]] # ListArgs.directory
    /\ \E x \in ListScope : kind[x] = "file" /\ x \notin SeqToSet(listOut[1])
    /\ \E x \in ListScope : kind[x] = "dir"

\* C11: get_file_list on a path that does not exist, or that exists and is
\* no directory, raises DirectoryNotFoundError and nothing else, whatever
\* recursive and the extension are, and returns no list.
C11_RaisesDirectoryNotFound ==
    (ListCalled /\ (ListArgs.directory = Missing \/ ListArgs.directory \in Files))
        => /\ listError = "DirectoryNotFoundError"
           /\ listOut = <<>>

\* A recursive listing by extension was asked of a plain file and raised.
C11_Witness ==
    /\ ListCalled
    /\ ListArgs.directory \in Files
    /\ ListArgs.recursive /\ ListArgs.extension # <<>>
    /\ listError = "DirectoryNotFoundError" /\ listOut = <<>>

====
